---- MODULE Spec2Model ----
(***************************************************************************)
(* Model of requests_toolbelt.multipart.decoder: MultipartDecoder and      *)
(* BodyPart.  A byte string is a sequence of one-byte strings; CR and LF   *)
(* stand for the bytes 0x0D and 0x0A.  A text string (the content-type     *)
(* header) is a sequence of characters; encode_with turns it into bytes.   *)
(***************************************************************************)
EXTENDS Integers, Sequences, FiniteSets, TLC

\* content, content_type, encoding, parts, boundary: the fields of a
\*     MultipartDecoder (boundary is Unset until _find_boundary assigns it);
\* pc:   the step of __init__ that runs next, or "done" / "raised";
\* err:  the name of the exception that ended the constructor, or "";
\* sent: the message as the peer framed it (the parts, the boundary token
\*       and the attributes of the Content-Type header); the decoder never
\*       reads it.
VARIABLES content, content_type, encoding, boundary, parts, pc, err, sent

vars == <<content, content_type, encoding, boundary, parts, pc, err, sent>>

----------------------------------------------------------------------------
(* Bytes and the Python string primitives the decoder calls.               *)

CR == "CR"
LF == "LF"
CRLF == <<CR, LF>>
CRLFCRLF == <<CR, LF, CR, LF>>
Dashes == <<"-", "-">>
EAcute == "U+00E9"

Min(a, b) == IF a < b THEN a ELSE b
Max(a, b) == IF a > b THEN a ELSE b

\* Python's s[lo:hi]: a negative index counts from the end, both are clamped.
PyIndex(i, n) == IF i < 0 THEN Max(i + n, 0) ELSE Min(i, n)
Slice(s, lo, hi) ==
    LET l == PyIndex(lo, Len(s))
        h == PyIndex(hi, Len(s))
    IN  IF l >= h THEN <<>> ELSE SubSeq(s, l + 1, h)
SliceFrom(s, lo) == Slice(s, lo, Len(s))
SliceTo(s, hi) == Slice(s, 0, hi)

MatchAt(s, sub, i) ==
    /\ i + Len(sub) <= Len(s)
    /\ \A k \in 1..Len(sub) : s[i + k] = sub[k]

\* Python's s.find(sub): the lowest 0-based index of sub in s, or -1.
RECURSIVE FindFrom(_, _, _)
FindFrom(s, sub, i) ==
    IF i + Len(sub) > Len(s) THEN -1
    ELSE IF MatchAt(s, sub, i) THEN i
    ELSE FindFrom(s, sub, i + 1)
find(s, sub) == FindFrom(s, sub, 0)

\* Python's `sub in s`.
In(sub, s) == find(s, sub) # -1

\* Python's s.split(sep) for a non-empty sep: left to right, non-overlapping.
RECURSIVE split(_, _)
split(s, sep) ==
    LET p == find(s, sep)
    IN  IF p = -1 THEN <<s>>
        ELSE <<SliceTo(s, p)>> \o split(SliceFrom(s, p + Len(sep)), sep)

\* Python's s.strip(chars) / s.strip().
RECURSIVE lstrip(_, _)
lstrip(s, chars) ==
    IF s # <<>> /\ s[1] \in chars THEN lstrip(Tail(s), chars) ELSE s
RECURSIVE rstrip(_, _)
rstrip(s, chars) ==
    IF s # <<>> /\ s[Len(s)] \in chars
    THEN rstrip(SubSeq(s, 1, Len(s) - 1), chars) ELSE s
strip(s, chars) == rstrip(lstrip(s, chars), chars)
Whitespace == {" ", "\t", CR, LF}

\* Python's s.lower() on the ASCII letters.
UpperLetters == <<"A", "B", "C", "D", "E", "F", "G", "H", "I", "J", "K", "L", "M",
                  "N", "O", "P", "Q", "R", "S", "T", "U", "V", "W", "X", "Y", "Z">>
LowerLetters == <<"a", "b", "c", "d", "e", "f", "g", "h", "i", "j", "k", "l", "m",
                  "n", "o", "p", "q", "r", "s", "t", "u", "v", "w", "x", "y", "z">>
LowerChar(c) ==
    IF \E i \in 1..Len(UpperLetters) : UpperLetters[i] = c
    THEN LowerLetters[CHOOSE i \in 1..Len(UpperLetters) : UpperLetters[i] = c]
    ELSE c
lower(s) == [i \in 1..Len(s) |-> LowerChar(s[i])]

RECURSIVE Flatten(_)
Flatten(ss) == IF ss = <<>> THEN <<>> ELSE Head(ss) \o Flatten(Tail(ss))

\* encode_with(string, encoding): str.encode under the configured charset.
EncodeChar(c, enc) ==
    IF c = EAcute
    THEN IF enc = "utf-8" THEN <<"xC3", "xA9">> ELSE <<"xE9">>
    ELSE <<c>>
encode_with(string, enc) ==
    Flatten([i \in 1..Len(string) |-> EncodeChar(string[i], enc)])

----------------------------------------------------------------------------
(* decoder.py                                                              *)

_split_on_find(cont, bound) ==
    LET point == find(cont, bound)
    IN  <<SliceTo(cont, point), SliceFrom(cont, point + Len(bound))>>

\* A Python dict as the sequence of its <<key, value>> items in insertion
\* order: d[k] = v replaces the value of an existing key in place.
DictSet(d, k, v) ==
    IF \E i \in 1..Len(d) : d[i][1] = k
    THEN [i \in 1..Len(d) |-> IF d[i][1] = k THEN <<k, v>> ELSE d[i]]
    ELSE Append(d, <<k, v>>)

\* requests.structures.CaseInsensitiveDict(data): _store[key.lower()] =
\* (key, value) for every item of data; items are <<lowered, <<key, value>>>>.
RECURSIVE CaseInsensitiveDictFrom(_, _)
CaseInsensitiveDictFrom(data, store) ==
    IF data = <<>> THEN store
    ELSE CaseInsensitiveDictFrom(Tail(data),
             DictSet(store, lower(Head(data)[1]), Head(data)))
CaseInsensitiveDict(data) == CaseInsensitiveDictFrom(data, <<>>)

Missing == <<"KeyError">>
HeaderGet(headers, name) ==
    IF \E i \in 1..Len(headers) : headers[i][1] = lower(name)
    THEN headers[CHOOSE i \in 1..Len(headers) : headers[i][1] = lower(name)][2][2]
    ELSE Missing

\* The loop of BodyPart.__init__ over the lines of the header block.
RECURSIVE HeaderLoop(_, _)
HeaderLoop(lines, headers) ==
    IF lines = <<>> THEN headers
    ELSE LET line == Head(lines)
             kv == _split_on_find(line, <<":", " ">>)
         IN  HeaderLoop(Tail(lines),
                 IF In(<<":", " ">>, line)
                 THEN DictSet(headers, kv[1], kv[2]) ELSE headers)

BodyPart(cont) ==
    IF In(CRLFCRLF, cont)
    THEN LET sp == _split_on_find(cont, CRLFCRLF)
             first == sp[1]
             headers == IF first # <<>>
                        THEN HeaderLoop(split(first, CRLF), <<>>) ELSE <<>>
         IN  [ok |-> TRUE, headers |-> CaseInsensitiveDict(headers),
              content |-> sp[2]]
    ELSE IF SliceTo(cont, 2) = CRLF
    THEN [ok |-> TRUE, headers |-> CaseInsensitiveDict(<<>>),
          content |-> SliceFrom(cont, 2)]
    ELSE [ok |-> FALSE, headers |-> <<>>, content |-> <<>>]

Unset == <<"unset">>
Multipart == <<"m", "u", "l", "t", "i", "p", "a", "r", "t">>
BoundaryWord == <<"b", "o", "u", "n", "d", "a", "r", "y">>

\* The attribute loop of _find_boundary: the last matching item wins.
RECURSIVE AttrLoop(_, _, _)
AttrLoop(items, enc, bnd) ==
    IF items = <<>> THEN bnd
    ELSE LET av == _split_on_find(Head(items), <<"=">>)
         IN  AttrLoop(Tail(items), enc,
                 IF lower(av[1]) = BoundaryWord
                 THEN encode_with(strip(av[2], {"\""}), enc) ELSE bnd)

ct_info(ct) ==
    LET raw == split(ct, <<";">>)
    IN  [i \in 1..Len(raw) |-> strip(raw[i], Whitespace)]

\* _find_boundary without the test of the mimetype.
_find_boundary_unchecked(ct, enc) ==
    [err |-> "", boundary |-> AttrLoop(Tail(ct_info(ct)), enc, Unset)]

_find_boundary(ct, enc) ==
    LET info == ct_info(ct)
        mimetype == info[1]
    IN  IF split(mimetype, <<"/">>)[1] # Multipart
        THEN [err |-> "NonMultipartContentTypeException", boundary |-> Unset]
        ELSE [err |-> "", boundary |-> AttrLoop(Tail(info), enc, Unset)]

\* _fix_last_part that never removes the end marker.
_fix_last_part_keeps(part, end_marker) == part

_fix_last_part(part, end_marker) ==
    IF In(end_marker, part)
    THEN SliceTo(part, find(part, end_marker))
    ELSE part

\* The fragments the list comprehension of _parse_body keeps.
SelectFragments(xs) == SelectSeq(xs, LAMBDA x : x # <<>> /\ x # CRLF)
Fragments(cont, bnd) ==
    SelectFragments(split(cont, Dashes \o bnd \o CRLF))
EndMarker(bnd) == CRLF \o Dashes \o bnd \o Dashes
Trimmed(x, bnd) == _fix_last_part(Slice(x, 0, -2), EndMarker(bnd))

\* _parse_body that leaves out the fragments BodyPart refuses.
_parse_body_skipping(cont, bnd) ==
    IF bnd = Unset THEN [err |-> "AttributeError", parts |-> <<>>]
    ELSE LET frags == Fragments(cont, bnd)
             built == [i \in 1..Len(frags) |-> BodyPart(Trimmed(frags[i], bnd))]
         IN  [err |-> "", parts |-> SelectSeq(built, LAMBDA p : p.ok)]

_parse_body(cont, bnd) ==
    IF bnd = Unset THEN [err |-> "AttributeError", parts |-> <<>>]
    ELSE LET frags == Fragments(cont, bnd)
             built == [i \in 1..Len(frags) |-> BodyPart(Trimmed(frags[i], bnd))]
         IN  IF \E i \in 1..Len(built) : ~built[i].ok
             THEN [err |-> "ImproperBodyPartContentException", parts |-> <<>>]
             ELSE [err |-> "", parts |-> built]

MultipartDecoder(cont, ct, enc) ==
    LET fb == _find_boundary(ct, enc)
    IN  IF fb.err # "" THEN [err |-> fb.err, parts |-> <<>>]
        ELSE _parse_body(cont, fb.boundary)

----------------------------------------------------------------------------
(* The peer that produced the message: the wire format of the payload and  *)
(* of the Content-Type header.  `sent` records what the peer framed.       *)

MaxParts == 2
MaxLines == 2
MaxAttrs == 2

ColonSpace == <<":", " ">>
FormData == Multipart \o <<"/", "f", "o", "r", "m", "-", "d", "a", "t", "a">>
AppJson == <<"a", "p", "p", "l", "i", "c", "a", "t", "i", "o", "n", "/",
             "j", "s", "o", "n">>

Attr(name, eq, value) == [name |-> name, eq |-> eq, value |-> value]
BoundaryAttr(b) == Attr(BoundaryWord, TRUE, b)

AttrText(a) == IF a.eq THEN a.name \o <<"=">> \o a.value ELSE a.name
ContentTypeOf(s) ==
    s.mime \o Flatten([i \in 1..Len(s.attrs) |-> <<";", " ">> \o AttrText(s.attrs[i])])

Part(framed, lines, cont, eol) ==
    [framed |-> framed, lines |-> lines, content |-> cont, eol |-> eol]

PartFrame(b, p) ==
    IF p.framed
    THEN Dashes \o b \o CRLF
         \o Flatten([i \in 1..Len(p.lines) |-> p.lines[i] \o CRLF])
         \o CRLF \o p.content \o p.eol
    ELSE Dashes \o b \o CRLF \o p.content

Closing(b, closing) ==
    CASE closing = "none" -> <<>>
      [] closing = "marker" -> Dashes \o b \o Dashes
      [] closing = "markerCRLF" -> Dashes \o b \o Dashes \o CRLF

PayloadOf(s) ==
    Flatten([i \in 1..Len(s.parts) |-> PartFrame(s.b, s.parts[i])])
    \o Closing(s.b, s.closing)

Message(mime, attrs, enc, b, ps, closing) ==
    [mime |-> mime, attrs |-> attrs, encoding |-> enc, b |-> b,
     parts |-> ps, closing |-> closing]

\* Sequences over S: of at most n elements, and of at most n distinct ones.
SeqsUpTo(S, lo, n) == UNION {[1..k -> S] : k \in lo..n}
DistinctSeqsUpTo(S, n) ==
    {q \in SeqsUpTo(S, 0, n) : \A i, j \in 1..Len(q) : i # j => q[i] # q[j]}

Closings == {"none", "marker", "markerCRLF"}

LineA == <<"A">> \o ColonSpace \o <<"x">> \o ColonSpace \o <<"y">>
LineBc == <<"B", "c">> \o ColonSpace \o <<"3">>
LineNoSpace == <<"D", ":", "4">>
HeaderLines == {LineA, LineBc, LineNoSpace}

\* Messages that vary the header blocks of the parts.
HeaderParts ==
    {Part(TRUE, ls, <<"d">>, CRLF) : ls \in DistinctSeqsUpTo(HeaderLines, MaxLines)}
HeaderMessages ==
    {Message(FormData, <<BoundaryAttr(<<"b">>)>>, "utf-8", <<"b">>, ps, "markerCRLF") :
        ps \in SeqsUpTo(HeaderParts, 1, MaxParts)}

\* Messages that vary the content, the line ending and the closing marker.
Contents(b) ==
    { <<>>, <<"d">>,
      <<"d">> \o CRLFCRLF \o <<"e">>,
      CRLF \o <<"d">>,
      <<"d">> \o CRLF \o Dashes \o b \o Dashes \o <<"e">> }
ContentParts(b) ==
    {Part(TRUE, ls, c, CRLF) : ls \in {<<>>, <<LineA>>}, c \in Contents(b)}
    \cup {Part(TRUE, <<>>, <<"d">>, <<LF>>)}
    \cup {Part(FALSE, <<>>, <<"d">>, <<>>)}
ContentMessages ==
    {Message(FormData, <<BoundaryAttr(<<"b">>)>>, "utf-8", <<"b">>, ps, cl) :
        ps \in SeqsUpTo(ContentParts(<<"b">>), 1, MaxParts), cl \in Closings}

\* Messages framed with boundary tokens that hold dashes.
DashTokens == {<<"-">>, <<"-", "-">>, <<"-", "b">>, <<"b", "-">>}
DashParts ==
    {Part(TRUE, ls, <<"d">>, CRLF) : ls \in {<<>>, <<LineA>>}}
DashMessages ==
    {Message(FormData, <<BoundaryAttr(b)>>, "utf-8", b, ps, "markerCRLF") :
        b \in DashTokens, ps \in SeqsUpTo(DashParts, 1, MaxParts)}

\* Messages whose header names differ in letter case only.
LineLowerA == <<"a">> \o ColonSpace \o <<"2">>
CaseMessages ==
    {Message(FormData, <<BoundaryAttr(<<"b">>)>>, "utf-8", <<"b">>,
             <<Part(TRUE, ls, <<"d">>, CRLF)>>, "markerCRLF") :
        ls \in DistinctSeqsUpTo({LineA, LineLowerA}, MaxLines)}

\* Messages that vary the Content-Type header and the charset.
Mimes ==
    { FormData, AppJson, Multipart,
      <<" ">> \o FormData,
      <<"M">> \o Tail(Multipart) \o <<"/", "x">>,
      <<"t", "e", "x", "t", "/">> \o Multipart }
Attrs(b) ==
    { BoundaryAttr(b),
      Attr(<<"B">> \o Tail(BoundaryWord), TRUE, <<"\"">> \o b \o <<"\"">>),
      Attr(BoundaryWord \o <<"x">>, FALSE, <<>>),
      Attr(<<"c">>, TRUE, <<"u">>) }
NamesBoundary(a) == a.eq /\ lower(a.name) = BoundaryWord
BoundaryAttrs(attrs) == {i \in 1..Len(attrs) : NamesBoundary(attrs[i])}
AttrLists(b) ==
    {q \in SeqsUpTo(Attrs(b), 0, MaxAttrs) : Cardinality(BoundaryAttrs(q)) <= 1}
Encodings == {"utf-8", "latin-1"}
HeaderValueParts ==
    {Part(TRUE, <<LineA>>, <<"d">>, CRLF), Part(FALSE, <<>>, <<"d">>, <<>>)}
HeaderValueMessages ==
    UNION {{Message(m, q, enc, encode_with(b, enc), <<p>>, "markerCRLF") :
               m \in Mimes, q \in AttrLists(b), enc \in Encodings,
               p \in HeaderValueParts} :
           b \in {<<"b">>, <<EAcute>>}}

Messages ==
    HeaderMessages \cup ContentMessages \cup DashMessages \cup CaseMessages
        \cup HeaderValueMessages

----------------------------------------------------------------------------
(* MultipartDecoder.__init__: the fields are set, then the two steps run.  *)

Init ==
    \E s \in Messages :
        /\ sent = s
        /\ content = PayloadOf(s)
        /\ content_type = ContentTypeOf(s)
        /\ encoding = s.encoding
        /\ boundary = Unset
        /\ parts = <<>>
        /\ pc = "_find_boundary"
        /\ err = ""

FindBoundary ==
    /\ pc = "_find_boundary"
    /\ \E r \in {_find_boundary(content_type, encoding)} :
           /\ boundary' = r.boundary
           /\ err' = r.err
           /\ pc' = IF r.err = "" THEN "_parse_body" ELSE "raised"
    /\ UNCHANGED <<content, content_type, encoding, parts, sent>>

ParseBody ==
    /\ pc = "_parse_body"
    /\ \E r \in {_parse_body(content, boundary)} :
           /\ parts' = r.parts
           /\ err' = r.err
           /\ pc' = IF r.err = "" THEN "done" ELSE "raised"
    /\ UNCHANGED <<content, content_type, encoding, boundary, sent>>

Next == FindBoundary \/ ParseBody

Spec == Init /\ [][Next]_vars

Returned == pc \in {"done", "raised"}

----------------------------------------------------------------------------
(* What the peer framed, read off `sent`.                                  *)

AllDashes(b) == \A i \in 1..Len(b) : b[i] = "-"
Delimiter(b) == Dashes \o b

\* A header line `Name: Value`: the name ends at the first ": ".
HasColonSpace(line) == \E i \in 0..Len(line) : MatchAt(line, ColonSpace, i)
NameEnd(line) ==
    IF HasColonSpace(line)
    THEN CHOOSE i \in 0..Len(line) :
             /\ MatchAt(line, ColonSpace, i)
             /\ \A j \in 0..(i - 1) : ~MatchAt(line, ColonSpace, j)
    ELSE Len(line)
NameOf(line) == SubSeq(line, 1, NameEnd(line))
ValueOf(line) == SubSeq(line, NameEnd(line) + 3, Len(line))
Contains(s, sub) == \E i \in 0..Len(s) : MatchAt(s, sub, i)

DistinctNames(lines) ==
    \A i, j \in 1..Len(lines) :
        i # j => lower(NameOf(lines[i])) # lower(NameOf(lines[j]))

\* The content-type is `multipart/form-data; boundary=b`.
PlainContentType(s) ==
    /\ s.mime = FormData
    /\ Len(s.attrs) = 1
    /\ s.attrs[1].name = BoundaryWord
    /\ s.attrs[1].eq
    /\ encode_with(s.attrs[1].value, s.encoding) = s.b

\* Every part is framed with a CRLF after its content, and neither a header
\* line nor the content holds the delimiter `--b`.
FramedPart(p, b) ==
    /\ p.framed
    /\ p.eol = CRLF
    /\ ~Contains(p.content, Delimiter(b))
    /\ \A i \in 1..Len(p.lines) :
          /\ HasColonSpace(p.lines[i])
          /\ ~Contains(p.lines[i], CRLF)
          /\ ~Contains(p.lines[i], Delimiter(b))
    /\ DistinctNames(p.lines)
Framed(s) ==
    /\ PlainContentType(s)
    /\ \A i \in 1..Len(s.parts) : FramedPart(s.parts[i], s.b)

\* Framed as above, every part with at least one header line.
WithHeaders(s) == \A i \in 1..Len(s.parts) : Len(s.parts[i].lines) >= 1

\* Part i of the result carries the content and the headers of framed part i.
DecodedAs(bp, p) ==
    /\ bp.content = p.content
    /\ \A k \in 1..Len(p.lines) :
          HeaderGet(bp.headers, NameOf(p.lines[k])) = ValueOf(p.lines[k])
AllDecoded(s) ==
    /\ pc = "done"
    /\ Len(parts) = Len(s.parts)
    /\ \A i \in 1..Len(s.parts) : DecodedAs(parts[i], s.parts[i])

----------------------------------------------------------------------------
(* C1 *)

\* C1 as stated: for every boundary token b, a payload of parts with header
\* lines, each framed `--b CRLF lines CRLF content CRLF`, closed by `--b--`
\* and a CRLF, decodes to one BodyPart per part, in order, with the framed
\* content and headers.
C1_EveryBoundary ==
    (Returned /\ Framed(sent) /\ WithHeaders(sent) /\ sent.closing = "markerCRLF")
        => AllDecoded(sent)

\* C1, amended: the same for every boundary token that has a character
\* other than `-`.
C1_FramedPayloadDecodes ==
    (Returned /\ Framed(sent) /\ WithHeaders(sent) /\ sent.closing = "markerCRLF"
        /\ ~AllDashes(sent.b))
        => AllDecoded(sent)

C1_Witness ==
    /\ pc = "done"
    /\ Framed(sent) /\ WithHeaders(sent) /\ sent.closing = "markerCRLF"
    /\ ~AllDashes(sent.b)
    /\ Len(sent.parts) >= 2
    /\ Len(sent.parts[2].lines) = 2
    /\ Len(parts) = 2
    /\ Len(parts[2].headers) = 2

----------------------------------------------------------------------------
(* C2 *)

\* The top-level type of the first `;`-separated token of a content-type.
FirstToken(ct) ==
    IF Contains(ct, <<";">>)
    THEN SubSeq(ct, 1, CHOOSE i \in 0..Len(ct) :
                           /\ ct[i + 1] = ";"
                           /\ \A j \in 1..i : ct[j] # ";")
    ELSE ct
TopLevelType(ct) ==
    LET tok == strip(FirstToken(ct), Whitespace)
    IN  IF Contains(tok, <<"/">>)
        THEN SubSeq(tok, 1, CHOOSE i \in 0..Len(tok) :
                                /\ tok[i + 1] = "/"
                                /\ \A j \in 1..i : tok[j] # "/")
        ELSE tok

\* C2: a content-type whose top-level type is not `multipart` makes the
\* constructor fail with NonMultipartContentType, before the body is parsed
\* and with no parts, whatever the payload.
C2_NonMultipartFails ==
    (pc # "_find_boundary" /\ TopLevelType(content_type) # Multipart)
        => /\ pc = "raised"
           /\ err = "NonMultipartContentTypeException"
           /\ parts = <<>>
           /\ boundary = Unset

C2_Witness ==
    /\ pc = "raised"
    /\ err = "NonMultipartContentTypeException"
    /\ sent.mime = AppJson
    /\ \E i \in 1..Len(sent.attrs) : NamesBoundary(sent.attrs[i])

----------------------------------------------------------------------------
(* C3 *)

\* A trimmed fragment that has neither a header separator nor a leading CRLF.
Improper(t) == ~Contains(t, CRLFCRLF) /\ SubSeq(t, 1, Min(2, Len(t))) # CRLF
KeptFragments == IF boundary = Unset THEN <<>> ELSE Fragments(content, boundary)
ImproperAt(i) ==
    /\ i \in 1..Len(KeptFragments)
    /\ Improper(Trimmed(KeptFragments[i], boundary))

\* C3: one improper kept fragment makes the constructor fail with
\* ImproperBodyPartContent and leaves no parts, whatever the other fragments.
C3_ImproperFragmentFails ==
    (Returned /\ boundary # Unset
        /\ \E frags \in {Fragments(content, boundary)} :
              \E i \in 1..Len(frags) : Improper(Trimmed(frags[i], boundary)))
        => /\ pc = "raised"
           /\ err = "ImproperBodyPartContentException"
           /\ parts = <<>>

C3_Witness ==
    /\ pc = "raised"
    /\ err = "ImproperBodyPartContentException"
    /\ Len(KeptFragments) = 2
    /\ ~ImproperAt(1)
    /\ ImproperAt(2)

----------------------------------------------------------------------------
(* C4 *)

\* The outcome of the constructor: the error raised, or the parts.
Outcome == [err |-> err, parts |-> parts]

\* C4: a framed payload that ends with the terminal marker `--b--` decodes
\* to the same parts as the payload without the terminal marker.
C4_MarkerOptional ==
    (Returned /\ Framed(sent) /\ WithHeaders(sent) /\ ~AllDashes(sent.b)
        /\ sent.closing \in {"marker", "markerCRLF"})
        => Outcome = MultipartDecoder(PayloadOf([sent EXCEPT !.closing = "none"]),
                                      content_type, encoding)

----------------------------------------------------------------------------
(* C5 *)

\* One pair of surrounding double quotes removed.
Unquoted(v) ==
    IF Len(v) >= 2 /\ v[1] = "\"" /\ v[Len(v)] = "\""
    THEN SubSeq(v, 2, Len(v) - 1) ELSE v

\* C5: under a multipart content-type the boundary is the unquoted value of
\* the attribute named `boundary` (in any letter case), wherever it stands,
\* and no other attribute determines it.
C5_BoundaryFromItsAttribute ==
    (pc # "_find_boundary" /\ TopLevelType(content_type) = Multipart)
        => \A i \in 1..Len(sent.attrs) :
              NamesBoundary(sent.attrs[i])
                  => boundary = encode_with(Unquoted(sent.attrs[i].value), encoding)

----------------------------------------------------------------------------
(* C6 *)

\* C6: when the payload ends exactly with `--b--`, the marker is stripped and
\* the last part's content is the content that precedes the CRLF before it.
C6_MarkerStripped ==
    (Returned /\ Framed(sent) /\ WithHeaders(sent) /\ ~AllDashes(sent.b)
        /\ sent.closing = "marker")
        => /\ pc = "done"
           /\ Len(parts) = Len(sent.parts)
           /\ parts[Len(parts)].content = sent.parts[Len(sent.parts)].content

----------------------------------------------------------------------------
(* C7 *)

\* Every part is framed and the payload has no terminal marker, so that a
\* kept fragment is a part's header block, blank line, content and line end.
BareLineEnd(s) ==
    /\ PlainContentType(s)
    /\ ~AllDashes(s.b)
    /\ s.closing = "none"
    /\ \A i \in 1..Len(s.parts) : s.parts[i].framed
    /\ \E i \in 1..Len(s.parts) : s.parts[i].eol = <<LF>>

\* C7: a fragment whose last two bytes are not CRLF is rejected with an
\* error, not decoded with those two bytes lost.
C7_NonCRLFRejected ==
    (Returned /\ BareLineEnd(sent)
        /\ \E i \in 1..Len(KeptFragments) :
              SubSeq(KeptFragments[i], Max(1, Len(KeptFragments[i]) - 1),
                     Len(KeptFragments[i])) # CRLF)
        => pc = "raised"

----------------------------------------------------------------------------
(* C8 *)

NonEmptyLines(lines) == SelectSeq(lines, LAMBDA l : l # <<>>)

\* C8: every non-empty line of a header block produces an entry of the header
\* map, found under its name in any letter case; no line is dropped.
C8_EveryLineKept ==
    (pc = "done" /\ PlainContentType(sent) /\ sent.closing = "markerCRLF"
        /\ ~AllDashes(sent.b)
        /\ \A i \in 1..Len(sent.parts) :
              /\ sent.parts[i].framed
              /\ sent.parts[i].eol = CRLF
              /\ sent.parts[i].content = <<"d">>
              /\ Len(sent.parts[i].lines) >= 1
              /\ DistinctNames(sent.parts[i].lines))
        => /\ Len(parts) = Len(sent.parts)
           /\ \A i \in 1..Len(sent.parts) :
                 LET lines == NonEmptyLines(sent.parts[i].lines)
                 IN  /\ Len(parts[i].headers) = Len(lines)
                     /\ \A k \in 1..Len(lines) :
                           HasColonSpace(lines[k])
                               => /\ HeaderGet(parts[i].headers, NameOf(lines[k]))
                                        = ValueOf(lines[k])
                                  /\ HeaderGet(parts[i].headers, lower(NameOf(lines[k])))
                                        = ValueOf(lines[k])

----------------------------------------------------------------------------
(* C9 *)

\* C9: a fragment that is not the last one loses its trailing CRLF and no
\* other byte, whatever its content.
C9_MarkerOnlyOnLast ==
    (pc = "done" /\ ~AllDashes(boundary) /\ Len(parts) = Len(KeptFragments))
        => \A i \in 1..(Len(KeptFragments) - 1) :
              parts[i] = BodyPart(SubSeq(KeptFragments[i], 1, Len(KeptFragments[i]) - 2))

----------------------------------------------------------------------------
(* C10 *)

\* C10: a part framed with no header line decodes to an empty header map and
\* the framed content, also when the content holds CRLF CRLF or starts with
\* CRLF.
C10_NoHeaderPart ==
    (Returned /\ Framed(sent) /\ ~AllDashes(sent.b) /\ sent.closing = "markerCRLF")
        => /\ pc = "done"
           /\ Len(parts) = Len(sent.parts)
           /\ \A i \in 1..Len(sent.parts) :
                 sent.parts[i].lines = <<>>
                     => /\ parts[i].headers = <<>>
                        /\ parts[i].content = sent.parts[i].content

====
